---------------------------- MODULE Spec2Model ----------------------------
(***************************************************************************)
(* Model of the countries/favorites application.                           *)
(*                                                                         *)
(*   backend/server.js   the Express middleware chain, the route           *)
(*                       registration order, the startup sequence          *)
(*                       (mongoose.connect / app.listen) and the role      *)
(*                       seeding function initial()                        *)
(*   favorite.service.js the browser client wrapper (getFavorites,         *)
(*                       toggleFavorite)                                   *)
(*                                                                         *)
(* The route modules (auth.routes, user.routes, favorite.routes) and the   *)
(* favorites controller are required by server.js but are not part of the  *)
(* sources at hand; their behaviour is taken from the written              *)
(* specification (sections 4.3, 5, 6) and marked as such below.            *)
(*                                                                         *)
(* Two specifications share the definitions:                               *)
(*   Spec         one process after the other: module load, connect,       *)
(*                listen, seeding, exit, restart (with health probes)      *)
(*   SpecServing  a process that is connected and listening, serving       *)
(*                arbitrary requests and concurrent favourite toggles      *)
(***************************************************************************)
EXTENDS Naturals, FiniteSets, Sequences, Bags, TLC

\* ------------------------------------------------------------------ bounds
MaxRuns == 2       \* process starts (a "seeding run" is one process start)
MaxCalls == 2      \* toggle calls in flight at the same time

\* ---------------------------------------------------------------- domains
Users == {"A", "B"}
Codes == {"FR", "DE"}
Pairs == Users \X Codes
NoSession == "none"
NoCode == "none"

\* server.js 97, 102, 107: the three names initial() saves
RoleNames == {"user", "moderator", "admin"}

VARIABLES
  run,       \* number of the current process start
  proc,      \* "running" | "exit1" (process.exit(1)) | "crashed" | "stopped"
  conn,      \* mongoose.connect: "connecting" | "connected" | "failed" | "closed"
  listen,    \* app.listen: "binding" | "listening" | "closed"
  seed,      \* initial(): "idle" | "counting" | "countError" | "skipped" | "saving"
  pending,   \* role names whose save() is in flight
  log,       \* console lines of the current process, as <<kind, subject>>
  roles,     \* the Role collection: a bag of document names
  seedRuns,  \* history: runs whose count succeeded and whose saves all settled
  saveErrs,  \* history: role names whose save ever failed or was lost
  fav,       \* the Favorite collection: rows per (user, countryCode)
  calls,     \* toggle calls in flight: a bag of [user, code, pc]
  odd,       \* history: per pair, whether the number of answered
             \* toggleFavorite calls is odd
  lastReq,   \* the request answered last
  resp       \* the response to it

vars == <<run, proc, conn, listen, seed, pending, log, roles, seedRuns,
          saveErrs, fav, calls, odd, lastReq, resp>>

procVars == <<run, proc, conn, listen, seed, pending, log, roles, seedRuns,
              saveErrs>>
httpVars == <<fav, calls, odd, lastReq, resp>>


\* ------------------------------------------------------ the client wrapper
\* favorite.service.js 5: the base of every client URL (host left out)
API_URL == "/api/"

\* getFavorites with a mistyped URL.
getFavoritesWrongUrl(hdr) ==
  [op |-> "getFavorites", method |-> "GET", path |-> API_URL \o "favorite",
   sess |-> hdr, bodyOk |-> TRUE, code |-> NoCode]

\* favorite.service.js 8-10.  hdr is what authHeader() makes the server see:
\* the user the request's session resolves to, or NoSession.
getFavorites(hdr) ==
  [op |-> "getFavorites", method |-> "GET", path |-> API_URL \o "favorites",
   sess |-> hdr, bodyOk |-> TRUE, code |-> NoCode]

\* toggleFavorite posting to the list URL.
toggleFavoriteWrongUrl(countryCode, hdr) ==
  [op |-> "toggleFavorite", method |-> "POST", path |-> API_URL \o "favorites",
   sess |-> hdr, bodyOk |-> TRUE, code |-> countryCode]

\* favorite.service.js 12-18 (countryName and flagUrl are display fields that
\* no decision depends on; the JSON body axios builds always parses)
toggleFavorite(countryCode, hdr) ==
  [op |-> "toggleFavorite", method |-> "POST",
   path |-> API_URL \o "favorites/toggle",
   sess |-> hdr, bodyOk |-> TRUE, code |-> countryCode]

ClientRequests ==
  {getFavorites(h) : h \in Users \cup {NoSession}}
    \cup {toggleFavorite(c, h) : c \in Codes, h \in Users \cup {NoSession}}

\* Requests sent by anything else: any method and path with no session,
\* with a body that parses or not, and the favourites paths with a session;
\* none carries a countryCode field.
Methods == {"GET", "POST", "OPTIONS"}
Paths == {"/api/favorites", "/api/favorites/toggle", "/api/health",
          "/api/auth/signin", "/api/unknown"}
Raw(m, p, s, b) ==
  [op |-> "raw", method |-> m, path |-> p, sess |-> s, bodyOk |-> b,
   code |-> NoCode]
RawRequests ==
  {Raw(m, p, NoSession, b) : m \in Methods, p \in Paths, b \in BOOLEAN}
    \cup {Raw(m, p, "A", b) : m \in {"GET", "POST"},
                              p \in {"/api/favorites", "/api/favorites/toggle"},
                              b \in BOOLEAN}

\* The probe a load balancer or an operator sends during startup.
ProbeRequests ==
  {Raw("GET", p, NoSession, TRUE) : p \in {"/api/health", "/api/unknown"}}

NoReq == [op |-> "none", method |-> "none", path |-> "none", sess |-> NoSession,
          bodyOk |-> TRUE, code |-> NoCode]

\* ------------------------------------------------------------- responses
Reply(st, msg) ==
  [status |-> st, kind |-> "message", message |-> msg, added |-> FALSE,
   data |-> {}]
Empty(st) ==
  [status |-> st, kind |-> "empty", message |-> "", added |-> FALSE, data |-> {}]
Added(b) ==
  [status |-> 200, kind |-> "added", message |-> "", added |-> b, data |-> {}]
Listing(cs) ==
  [status |-> 200, kind |-> "list", message |-> "", added |-> FALSE, data |-> cs]
NoResp == Empty(0)

\* -------------------------------------------------------- the router stack
Route(m, p, h) == [kind |-> "route", method |-> m, path |-> p, handler |-> h]
Use(h) == [kind |-> "use", method |-> "*", path |-> "*", handler |-> h]

\* routes/auth.routes (specification, section 6)
AuthRoutes ==
  << Route("POST", "/api/auth/signup", "auth"),
     Route("POST", "/api/auth/signin", "auth"),
     Route("POST", "/api/auth/signout", "auth") >>

\* routes/user.routes: the specification lists no endpoint of it
UserRoutes == << >>

\* routes/favorite.routes (specification, section 6)
FavoriteRoutes ==
  << Route("GET", "/api/favorites", "favList"),
     Route("POST", "/api/favorites/toggle", "favToggle") >>

\* The stack with the catch-all registered first: everything is 404.
LayersCatchAllFirst ==
  << Use("notFound") >> \o AuthRoutes \o UserRoutes \o FavoriteRoutes
     \o << Route("GET", "/api/health", "health") >>

\* The stack with the favourites routes registered after the catch-all.
LayersFavoritesLast ==
  AuthRoutes \o UserRoutes \o << Route("GET", "/api/health", "health") >>
     \o << Use("notFound") >> \o FavoriteRoutes

\* server.js 60-73: the three route modules, then the health route, then
\* the catch-all, in registration order.
Layers ==
  AuthRoutes \o UserRoutes \o FavoriteRoutes
     \o << Route("GET", "/api/health", "health") >>
     \o << Use("notFound") >>

Matches(layer, req) ==
  \/ layer.kind = "use"
  \/ layer.method = req.method /\ layer.path = req.path

Registered(req) ==
  \E i \in 1..Len(Layers) : Layers[i].kind = "route" /\ Matches(Layers[i], req)

\* Express walks the stack in order and runs the first layer that matches.
FirstMatch(req) ==
  IF \E i \in 1..Len(Layers) : Matches(Layers[i], req)
  THEN LET i == CHOOSE k \in 1..Len(Layers) :
                  /\ Matches(Layers[k], req)
                  /\ \A j \in 1..(k - 1) : ~Matches(Layers[j], req)
       IN Layers[i].handler
  ELSE "finalhandler"

\* server.js 12-83, the middleware in the order app.use() installs it:
\*   cors (12-17) answers every OPTIONS request itself;
\*   express.json / urlencoded (20-21) pass a body that does not parse to
\*   the error handler (76-83), skipping every route and the catch-all;
\*   cookie-session (24-32) only decodes the session (req.sess here);
\*   then the router stack.
Dispatch(req) ==
  IF req.method = "OPTIONS" THEN "preflight"
  ELSE IF ~req.bodyOk THEN "errorHandler"
  ELSE FirstMatch(req)

\* What the specification's error taxonomy (section 7) lets an auth route answer
AuthStatuses == {200, 400, 500}

\* The favourites routes refusing a request (specification sections 4.3, 5
\* and 6): the session is validated before anything else, then the fields.
Refusal(req) ==
  IF req.sess = NoSession THEN Reply(401, "Unauthorized")
  ELSE Reply(400, "Missing fields")

\* The answer of a layer of server.js that needs no database operation:
\* cors (12-17), the error handler (76-83; outside production the message
\* is err.message), the health route (66-68), the catch-all (71-73), and
\* Express's own 404 when the stack has no layer left.
Immediate(h, req) ==
  CASE h = "preflight" -> Empty(204)
    [] h = "errorHandler" -> Reply(500, "Internal Server Error")
    [] h = "health" -> Reply(200, "API is running.")
    [] h = "notFound" -> Reply(404, "Not Found")
    [] OTHER -> Reply(404, "Cannot " \o req.method)


\* ------------------------------------------------------------------ state
Flag(b) == IF b THEN 1 ELSE 0
Count(bag) == BagCardinality(bag)

\* server.js 1-89 run to the end of the module: mongoose.connect() (45-50)
\* and app.listen() (87) have both been called and neither has completed;
\* initial() has not been called.
Loaded(pr, cn, ls, sd, pd, lg) ==
  /\ pr = "running"
  /\ cn = "connecting"
  /\ ls = "binding"
  /\ sd = "idle"
  /\ pd = {}
  /\ lg = {}

\* The module with initial() called at load time instead of in .then().
InitSeedsAtLoad ==
  /\ run = 1
  /\ proc = "running" /\ conn = "connecting" /\ listen = "binding"
  /\ seed = "counting" /\ pending = {} /\ log = {}
  /\ roles = EmptyBag
  /\ seedRuns = 0 /\ saveErrs = {}
  /\ fav = [p \in Pairs |-> 0]
  /\ calls = EmptyBag
  /\ odd = [p \in Pairs |-> FALSE]
  /\ lastReq = NoReq /\ resp = NoResp

\* The first start against an empty database.
Init ==
  /\ run = 1
  /\ Loaded(proc, conn, listen, seed, pending, log)
  /\ roles = EmptyBag
  /\ seedRuns = 0 /\ saveErrs = {}
  /\ fav = [p \in Pairs |-> 0]
  /\ calls = EmptyBag
  /\ odd = [p \in Pairs |-> FALSE]
  /\ lastReq = NoReq /\ resp = NoResp

\* --------------------------------------------------------------- startup
\* The process ends while saves are in flight: each of them has reached the
\* database or has not; requests in flight are never answered.
Terminate(how) ==
  /\ proc' = how
  /\ listen' = "closed"
  /\ \E landed \in SUBSET pending :
       /\ roles' = roles (+) SetToBag(landed)
       /\ saveErrs' = saveErrs \cup (pending \ landed)
  /\ pending' = {}
  /\ calls' = EmptyBag

\* The connection failure logged and the process left running, with the
\* listener open.
ConnectFailLogsOnly ==
  /\ proc = "running" /\ conn = "connecting"
  /\ conn' = "failed"
  /\ log' = log \cup {<<"error", "connect">>}
  /\ UNCHANGED <<run, proc, listen, seed, pending, roles, seedRuns, saveErrs>>
  /\ UNCHANGED httpVars

\* server.js 51-54: the connection is up; initial() issues the count query.
ConnectOk ==
  /\ proc = "running" /\ conn = "connecting"
  /\ conn' = "connected"
  /\ log' = log \cup {<<"info", "connected">>}
  /\ seed' = "counting"
  /\ UNCHANGED <<run, proc, listen, pending, roles, seedRuns, saveErrs>>
  /\ UNCHANGED httpVars

\* server.js 55-58: the connection failed; process.exit(1).
ConnectFail ==
  /\ proc = "running" /\ conn = "connecting"
  /\ conn' = "failed"
  /\ log' = log \cup {<<"error", "connect">>}
  /\ Terminate("exit1")
  /\ UNCHANGED <<run, seed, seedRuns>>
  /\ UNCHANGED <<fav, odd, lastReq, resp>>

\* server.js 87-89: the port is bound, the callback logs.
ListenOk ==
  /\ proc = "running" /\ listen = "binding"
  /\ listen' = "listening"
  /\ log' = log \cup {<<"info", "listening">>}
  /\ UNCHANGED <<run, proc, conn, seed, pending, roles, seedRuns, saveErrs>>
  /\ UNCHANGED httpVars

\* server.js 87: the port cannot be bound; the server's 'error' event has no
\* listener, so the process dies of the uncaught error.
ListenFail ==
  /\ proc = "running" /\ listen = "binding"
  /\ Terminate("crashed")
  /\ conn' = "closed"
  /\ UNCHANGED <<run, seed, log, seedRuns>>
  /\ UNCHANGED <<fav, odd, lastReq, resp>>

\* The operator or the platform stops a running process.
Stop ==
  /\ proc = "running"
  /\ Terminate("stopped")
  /\ conn' = "closed"
  /\ UNCHANGED <<run, seed, log, seedRuns>>
  /\ UNCHANGED <<fav, odd, lastReq, resp>>

\* The next process start, against the database the last one left.
Restart ==
  /\ proc # "running"
  /\ run < MaxRuns
  /\ run' = run + 1
  /\ Loaded(proc', conn', listen', seed', pending', log')
  /\ UNCHANGED <<roles, seedRuns, saveErrs>>
  /\ UNCHANGED httpVars

\* --------------------------------------------------------------- seeding
\* The count callback saving the three roles whatever the count is.
CountOkNoCheck ==
  /\ proc = "running" /\ seed = "counting"
  /\ seed' = "saving"
  /\ pending' = RoleNames
  /\ UNCHANGED <<run, proc, conn, listen, log, roles, seedRuns, saveErrs>>
  /\ UNCHANGED httpVars

\* The count callback seeding whenever fewer than three roles are stored.
CountOkBelowThree ==
  /\ proc = "running" /\ seed = "counting"
  /\ IF Count(roles) < 3
     THEN /\ seed' = "saving"
          /\ pending' = RoleNames
          /\ UNCHANGED seedRuns
     ELSE /\ seed' = "skipped"
          /\ seedRuns' = seedRuns + 1
          /\ UNCHANGED pending
  /\ UNCHANGED <<run, proc, conn, listen, log, roles, saveErrs>>
  /\ UNCHANGED httpVars

\* server.js 93-112: the count arrives; only if it is 0 the three save()
\* calls are issued, one after the other in the same callback.
\* (estimatedDocumentCount is taken to be the number of documents.)
CountOk ==
  /\ proc = "running" /\ seed = "counting"
  /\ IF Count(roles) = 0
     THEN /\ seed' = "saving"
          /\ pending' = RoleNames
          /\ UNCHANGED seedRuns
     ELSE /\ seed' = "skipped"
          /\ seedRuns' = seedRuns + 1
          /\ UNCHANGED pending
  /\ UNCHANGED <<run, proc, conn, listen, log, roles, saveErrs>>
  /\ UNCHANGED httpVars

\* server.js 113: the count query fails; logged, nothing else.
CountFail ==
  /\ proc = "running" /\ seed = "counting"
  /\ seed' = "countError"
  /\ log' = log \cup {<<"error", "count">>}
  /\ UNCHANGED <<run, proc, conn, listen, pending, roles, seedRuns, saveErrs>>
  /\ UNCHANGED httpVars

Settles(n) == IF pending = {n} THEN seedRuns + 1 ELSE seedRuns

\* server.js 97-99, 102-104, 107-109: a save() succeeds.
SaveOk(n) ==
  /\ proc = "running" /\ seed = "saving" /\ n \in pending
  /\ roles' = roles (+) SetToBag({n})
  /\ pending' = pending \ {n}
  /\ log' = log \cup {<<"added", n>>}
  /\ seedRuns' = Settles(n)
  /\ UNCHANGED <<run, proc, conn, listen, seed, saveErrs>>
  /\ UNCHANGED httpVars

\* One catch for the whole chain: the first failure abandons the saves that
\* have not completed.
SaveFailAbandons(n) ==
  /\ proc = "running" /\ seed = "saving" /\ n \in pending
  /\ pending' = {}
  /\ log' = log \cup {<<"error", n>>}
  /\ saveErrs' = saveErrs \cup pending
  /\ seedRuns' = seedRuns + 1
  /\ UNCHANGED <<run, proc, conn, listen, seed, roles>>
  /\ UNCHANGED httpVars

\* server.js 100, 105, 110: a save() fails; its own catch logs the error.
SaveFail(n) ==
  /\ proc = "running" /\ seed = "saving" /\ n \in pending
  /\ pending' = pending \ {n}
  /\ log' = log \cup {<<"error", n>>}
  /\ saveErrs' = saveErrs \cup {n}
  /\ seedRuns' = Settles(n)
  /\ UNCHANGED <<run, proc, conn, listen, seed, roles>>
  /\ UNCHANGED httpVars


\* ---------------------------------------------------------- HTTP handling
IsToggleCall(req) ==
  req.op = "toggleFavorite" /\ req.sess \in Users /\ req.code \in Codes

PairOf(req) == <<req.sess, req.code>>

\* The response leaves the server; a toggleFavorite call of the client that
\* gets its answer is counted for its pair.
Answer(req, r) ==
  /\ lastReq' = req
  /\ resp' = r
  /\ odd' = IF IsToggleCall(req)
            THEN [odd EXCEPT ![PairOf(req)] = ~@]
            ELSE odd

Serving == proc = "running" /\ listen = "listening"

\* Favorites Service list(userId), specification section 4.3: the country
\* codes of the rows the user owns.
ListOf(u) == {c \in Codes : fav[<<u, c>>] > 0}

\* An auth route: one of the statuses the specification allows.
AuthHandler(req) ==
  /\ \E st \in AuthStatuses : Answer(req, Reply(st, "auth"))
  /\ UNCHANGED <<fav, calls>>

\* GET /api/favorites (specification 4.3, 6): 401 without a session, else
\* the user's list, read once the connection is up.
FavListHandler(req) ==
  IF req.sess = NoSession
  THEN /\ Answer(req, Refusal(req))
       /\ UNCHANGED <<fav, calls>>
  ELSE /\ conn = "connected"
       /\ Answer(req, Listing(ListOf(req.sess)))
       /\ UNCHANGED <<fav, calls>>

\* POST /api/favorites/toggle (specification 4.3, 6): 401 without a
\* session, 400 on missing fields, else the toggle starts with its first
\* database operation still to come (delete the row if there is one).
FavToggleHandler(req) ==
  IF req.sess = NoSession \/ req.code = NoCode
  THEN /\ Answer(req, Refusal(req))
       /\ UNCHANGED <<fav, calls>>
  ELSE /\ Count(calls) < MaxCalls
       /\ calls' = calls (+) SetToBag({[req |-> req, pc |-> "delete"]})
       /\ UNCHANGED <<fav, odd, lastReq, resp>>

\* server.js 9-83: a request arrives at the listening server and runs
\* through the chain to the layer that answers it.
HandleRequest(req) ==
  /\ Serving
  /\ LET h == Dispatch(req) IN
       CASE h = "favToggle" -> FavToggleHandler(req)
         [] h = "favList" -> FavListHandler(req)
         [] h = "auth" -> AuthHandler(req)
         [] OTHER ->
              /\ Answer(req, Immediate(h, req))
              /\ UNCHANGED <<fav, calls>>
  /\ UNCHANGED procVars

Replace(c, d) == (calls (-) SetToBag({c})) (+) SetToBag({d})

\* No uniqueness constraint: every insert succeeds.
NoUniqueIndex(p) == TRUE

\* The uniqueness constraint on (userId, countryCode), specification
\* sections 3 and 5: an insert succeeds only if the pair has no row.
UniqueIndexAllows(p) == fav[p] = 0

\* deleteOne for the call's pair: a row deleted answers {added: false};
\* no row deleted sends the call on to the insert.
DbDelete(c) ==
  /\ proc = "running" /\ conn = "connected"
  /\ c \in BagToSet(calls) /\ c.pc = "delete"
  /\ LET p == PairOf(c.req) IN
       IF fav[p] > 0
       THEN /\ fav' = [fav EXCEPT ![p] = @ - 1]
            /\ calls' = calls (-) SetToBag({c})
            /\ Answer(c.req, Added(FALSE))
       ELSE /\ calls' = Replace(c, [c EXCEPT !.pc = "insert"])
            /\ UNCHANGED <<fav, odd, lastReq, resp>>
  /\ UNCHANGED procVars

\* insert for the call's pair: a row created answers {added: true}; a
\* conflict with the uniqueness constraint sends the call back to the delete.
DbInsert(c) ==
  /\ proc = "running" /\ conn = "connected"
  /\ c \in BagToSet(calls) /\ c.pc = "insert"
  /\ LET p == PairOf(c.req) IN
       IF UniqueIndexAllows(p)
       THEN /\ fav' = [fav EXCEPT ![p] = @ + 1]
            /\ calls' = calls (-) SetToBag({c})
            /\ Answer(c.req, Added(TRUE))
       ELSE /\ calls' = Replace(c, [c EXCEPT !.pc = "delete"])
            /\ UNCHANGED <<fav, odd, lastReq, resp>>
  /\ UNCHANGED procVars

\* --------------------------------------------------------- specifications
Probe == \E req \in ProbeRequests : HandleRequest(req)

Next ==
  \/ ConnectOk
  \/ ConnectFail
  \/ ListenOk
  \/ ListenFail
  \/ Stop
  \/ Restart
  \/ CountOk
  \/ CountFail
  \/ \E n \in RoleNames : SaveOk(n)
  \/ \E n \in RoleNames : SaveFail(n)
  \/ Probe

Spec == Init /\ [][Next]_vars

\* A process that has connected and is listening; what seeding left in the
\* Role collection plays no part in serving.
InitServing ==
  /\ run = 1
  /\ proc = "running" /\ conn = "connected" /\ listen = "listening"
  /\ seed = "saving" /\ pending = {}
  /\ log = {<<"info", "connected">>, <<"info", "listening">>}
             \cup {<<"added", n>> : n \in RoleNames}
  /\ roles = SetToBag(RoleNames)
  /\ seedRuns = 1 /\ saveErrs = {}
  /\ fav = [p \in Pairs |-> 0]
  /\ calls = EmptyBag
  /\ odd = [p \in Pairs |-> FALSE]
  /\ lastReq = NoReq /\ resp = NoResp

ClientCall == \E req \in ClientRequests : HandleRequest(req)
RawCall == \E req \in RawRequests : HandleRequest(req)

NextServing ==
  \/ ClientCall
  \/ RawCall
  \/ \E c \in BagToSet(calls) : DbDelete(c)
  \/ \E c \in BagToSet(calls) : DbInsert(c)

SpecServing == InitServing /\ [][NextServing]_vars


\* ================================================================ claims
ExactlyThree ==
  /\ Count(roles) = 3
  /\ \A n \in RoleNames : CopiesIn(n, roles) = 1

SaveLogged(n) == <<"added", n>> \in log \/ <<"error", n>> \in log

Connected == <<"info", "connected">> \in log

C5_FailuresIsolated ==
  /\ [](proc = "running" /\ seed = "saving" =>
          \A n \in RoleNames : n \in pending \/ SaveLogged(n))
  /\ [][\A n \in RoleNames :
          (<<"error", n>> \in log' /\ <<"error", n>> \notin log) =>
             /\ proc' = "running"
             /\ pending' = pending \ {n}
             /\ roles' = roles]_vars

C5_Witness ==
  /\ proc = "running" /\ seed = "saving" /\ pending = {}
  /\ <<"error", "moderator">> \in log
  /\ <<"added", "user">> \in log /\ <<"added", "admin">> \in log

\* ---- C6 ----
\* C6: a failed connection means the process has exited with code 1 and
\* initial() was never called (no count, no save in flight); seeding state
\* exists only in a process whose connection succeeded, and the Role
\* collection changes only by a process whose connection succeeded.
C6_ConnectFailureFatal ==
  /\ [](conn = "failed" => proc = "exit1" /\ seed = "idle" /\ pending = {})
  /\ []((seed # "idle" \/ pending # {}) => Connected)
  /\ [][roles' # roles => Connected]_vars

C6_Witness ==
  /\ conn = "failed" /\ proc = "exit1" /\ seed = "idle"
  /\ run = 2 /\ Count(roles) > 0

\* ---- C8 ----
\* C8 as stated: the server is listening (and has answered a request) only
\* after the connection has succeeded and seeding has been started.
C8_Original ==
  (listen = "listening" \/ lastReq # NoReq) => (Connected /\ seed # "idle")

\* C8, amended: connect and listen are started together, so the server may
\* listen and answer before the connection is up; what is ordered is that
\* seeding follows a successful connection, that requests are answered only
\* by a running, listening process, and that a connection failure ends the
\* process and with it the listener.
C8_StartupOrder ==
  /\ [](listen = "listening" => proc = "running" /\ conn # "failed")
  /\ [](seed # "idle" => conn \notin {"connecting", "failed"})
  /\ [](proc # "running" => listen = "closed")
  /\ [][<<lastReq, resp>>' # <<lastReq, resp>> =>
          proc = "running" /\ listen = "listening"]_vars

C8_Witness ==
  /\ listen = "listening" /\ conn = "connecting" /\ seed = "idle"
  /\ lastReq = Raw("GET", "/api/health", NoSession, TRUE)
  /\ resp.status = 200

\* ---- C10 ----
\* C10: saves are issued only by a count of exactly 0; once the collection
\* is non-empty and no save is in flight (in particular after a run that
\* stored one or two of the three roles) no later step changes it; and it
\* never holds a name other than user, moderator, admin.
C10_PartialSeedStays ==
  /\ [](BagToSet(roles) \subseteq RoleNames)
  /\ [][(pending = {} /\ pending' # {}) => Count(roles) = 0]_vars
  /\ [][(Count(roles) > 0 /\ pending = {}) => roles' = roles]_vars

C10_Witness ==
  /\ run = 2 /\ seed = "skipped"
  /\ Count(roles) \in {1, 2}
  /\ saveErrs # {}


\* ------------------------------------------------ claims about serving
InFlight(p) == \E c \in BagToSet(calls) : PairOf(c.req) = p

Answered == <<lastReq, resp>>' # <<lastReq, resp>>

Protected(req) ==
  \/ req.method = "GET" /\ req.path = "/api/favorites"
  \/ req.method = "POST" /\ req.path = "/api/favorites/toggle"

IsHealth(req) == req.method = "GET" /\ req.path = "/api/health"

C2_ConcurrentToggles ==
  /\ [](\A p \in Pairs : fav[p] <= 1 /\ fav[p] = Flag(odd[p]))
  /\ [][\A p \in Pairs :
          odd'[p] # odd[p] =>
             /\ resp'.kind = "added"
             /\ resp'.added = (fav[p] = 0)
             /\ fav'[p] = Flag(resp'.added)]_vars

\* two calls for the same pair have both found no row to delete and are both
\* about to insert
C2_Witness ==
  \E c \in BagToSet(calls) : c.pc = "insert" /\ CopiesIn(c, calls) >= 2

\* ---- C4 ----
\* C4 as stated: a request to GET /api/favorites or POST
\* /api/favorites/toggle without a valid session is answered 401 without
\* favourites data.
C4_Original ==
  (Protected(lastReq) /\ lastReq.sess = NoSession) =>
     (resp.status = 401 /\ resp.kind = "message")

\* C4, amended: such a request is answered 401 if its body parses, and 500
\* by the error handler if it does not (the body is parsed before the
\* session is looked at); in both cases the answer carries no favourites
\* data and the step changes neither the Favorite collection nor the calls
\* in flight.  (Sessions live in the cookie; the server holds none.)
C4_Unauthenticated ==
  /\ []((Protected(lastReq) /\ lastReq.sess = NoSession) =>
          /\ lastReq.bodyOk => resp = Reply(401, "Unauthorized")
          /\ ~lastReq.bodyOk => resp.status = 500
          /\ resp.kind = "message" /\ resp.data = {})
  /\ [][(Answered /\ Protected(lastReq') /\ lastReq'.sess = NoSession) =>
          (fav' = fav /\ calls' = calls /\ odd' = odd)]_vars

\* the list is refused although user A has a row to list
C4_Witness ==
  /\ lastReq = getFavorites(NoSession)
  /\ resp.status = 401
  /\ fav[<<"A", "FR">>] = 1

\* ---- C7 ----
\* C7 as stated: every request matching no registered route is answered
\* 404 {message: "Not Found"}, and GET /api/health is always answered
\* 200 {message: "API is running."}.
C7_Original ==
  /\ (lastReq # NoReq /\ ~Registered(lastReq)) => resp = Reply(404, "Not Found")
  /\ IsHealth(lastReq) => resp = Reply(200, "API is running.")

\* C7, amended: a request that reaches the router (not an OPTIONS request,
\* which cors answers 204, and with a body that parses, since a body that
\* does not is answered 500 by the error handler) and matches no registered
\* route is answered 404 {message: "Not Found"}; GET /api/health reaching
\* the router is answered 200 {message: "API is running."}; GET /api/health
\* is never answered 404.
C7_RouterAnswers ==
  /\ (lastReq # NoReq /\ lastReq.method # "OPTIONS" /\ lastReq.bodyOk
        /\ ~Registered(lastReq)) => resp = Reply(404, "Not Found")
  /\ (IsHealth(lastReq) /\ lastReq.bodyOk) =>
        resp = Reply(200, "API is running.")
  /\ IsHealth(lastReq) => resp.status # 404
  /\ lastReq.method = "OPTIONS" => resp = Empty(204)
  /\ (lastReq.method # "OPTIONS" /\ ~lastReq.bodyOk) => resp.status = 500

C7_Witness ==
  /\ lastReq = Raw("POST", "/api/unknown", NoSession, TRUE)
  /\ resp = Reply(404, "Not Found")

=============================================================================
